---- MODULE Spec2Model ----
(***************************************************************************)
(* A model of Proyecto1.c, the interactive shell for xv6: the circular     *)
(* command history, the line reader, the tokenizer, the builtin            *)
(* dispatcher of main and the two launchers run_cmd and run_pipe.          *)
(*                                                                         *)
(* A C string is a sequence of one-character strings; NUL is the           *)
(* terminator.  A char array is a sequence indexed from 1, so the C index  *)
(* k is the position k + 1.  A pointer into an array is a position, and    *)
(* the null pointer is 0.                                                  *)
(***************************************************************************)
EXTENDS Integers, Sequences, FiniteSets, TLC

\* ------------------------------------------------------------ constants
MAXLINE == 100
MAXARGS == 10
HISTORY_SIZE == 10
\* char *args[4] of the calculator
CALC_ARGS == 4

\* ------------------------------------------------------------ bounds
\* size of a process's descriptor table (xv6: NOFILE)
NOFILE == 16
\* lines typed in a session of Spec
MaxTyped == 2
\* non-empty lines recorded in a run of SpecHistory
MaxRecords == 12
\* length of the lines explored by SpecParse
MaxParseLen == 8

\* ------------------------------------------------------------ characters
NUL == "NUL"
NL == "NL"
SP == " "

VARIABLES
  history,        \* char history[HISTORY_SIZE][MAXLINE], slot k at [k]
  history_count,  \* int history_count
  recorded,       \* history of the run: every line add_history stored, in order
  out,            \* what the last operation printed
  op,             \* the last operation performed and its argument
  pline,          \* the line handed to parse (SpecParse)
  pres,           \* the result of parse on pline, or NotParsed (SpecParse)
  pc,             \* where the shell process is in main, run_cmd or run_pipe
  buf,            \* char buf[MAXLINE] of main, up to the terminator readline wrote
  argv,           \* char *argv[MAXARGS] of main: the entries parse wrote
  left_args,      \* char *left_args[MAXARGS]: the entries parse wrote
  right_args,     \* char *right_args[MAXARGS]: the entries parse wrote
  args,           \* char *args[4] of the calculator: the entries parse wrote
  status,         \* the exit status of the shell process, empty while it runs
  stdin,          \* the bytes typed and not yet read
  eof,            \* the input stream has ended
  typed,          \* history of the run: the lines typed, in order
  cmds,           \* history of the run: the lines readline returned, in order
  eofSeen,        \* history of the run: a read found the input exhausted
  pipeFailed,     \* history of the run: a call of pipe has failed
  ofile,          \* the open descriptors of the shell process
  p,              \* int p[2] of run_pipe
  procs,          \* the children of the shell process, by role
  events          \* history of the run: pipes, forks and reaps since the last prompt

histv == <<history, history_count, recorded>>
parsev == <<pline, pres>>
mainv == <<pc, buf, argv, left_args, right_args, args, status>>
inputv == <<stdin, eof, typed, cmds, eofSeen, pipeFailed>>
osv == <<ofile, p, procs, events>>
vars == <<history, history_count, recorded, out, op, pline, pres, pc, buf, argv,
          left_args, right_args, args, status, stdin, eof, typed, cmds, eofSeen,
          pipeFailed, ofile, p, procs, events>>

\* parse has not run: not even the closing 0 is in argv
NotParsed == [mem |-> <<>>, argv |-> <<>>]

\* *s for a string s read at position i: the terminator beyond the text
CharAt(s, i) == IF i >= 1 /\ i <= Len(s) THEN s[i] ELSE NUL

\* the least element of a non-empty set of positions
First(S) == CHOOSE x \in S : \A y \in S : x <= y

\* the C string that starts at position q of the array mem: up to the first
\* terminator at or after q
CStrAt(mem, q) ==
  LET end == First({j \in q..Len(mem) : mem[j] = NUL} \cup {Len(mem) + 1})
  IN SubSeq(mem, q, end - 1)

\* ------------------------------------------------------------ history
add_history_nocheck(cmd) ==
  /\ history' = [history EXCEPT ![history_count % HISTORY_SIZE] = cmd]
  /\ history_count' = history_count + 1

\* add_history: the effect on history and history_count
add_history(cmd) ==
  IF CharAt(cmd, 1) = NUL
  THEN UNCHANGED <<history, history_count>>
  ELSE /\ history' = [history EXCEPT ![history_count % HISTORY_SIZE] = cmd]
       /\ history_count' = history_count + 1

show_history_slotnum(h, n) ==
  LET start == IF n - HISTORY_SIZE < 0 THEN 0 ELSE n - HISTORY_SIZE
  IN [k \in 1..(n - start) |->
        LET i == start + k - 1 IN <<(i % HISTORY_SIZE) + 1, h[i % HISTORY_SIZE]>>]

\* show_history, with history = h and history_count = n: the numbered lines
\* it prints, one <<number, text>> per line
show_history(h, n) ==
  LET start == IF n - HISTORY_SIZE < 0 THEN 0 ELSE n - HISTORY_SIZE
  IN [k \in 1..(n - start) |->
        LET i == start + k - 1 IN <<i + 1, h[i % HISTORY_SIZE]>>]

\* ------------------------------------------------------------ parse
SkipSpaces_one(mem, q) ==
  IF mem[q] = SP THEN [mem |-> [mem EXCEPT ![q] = NUL], p |-> q + 1]
  ELSE [mem |-> mem, p |-> q]

\* while (*buf == ' ') *buf++ = '\0';
RECURSIVE SkipSpaces(_, _)
SkipSpaces(mem, q) ==
  IF mem[q] = SP THEN SkipSpaces([mem EXCEPT ![q] = NUL], q + 1)
  ELSE [mem |-> mem, p |-> q]

\* while (*buf != ' ' && *buf != '\0') buf++;  the loop stops at the first
\* space or terminator from q on
ScanToken(mem, q) == First({j \in q..Len(mem) : mem[j] = SP \/ mem[j] = NUL})

\* the outer loop of parse; av collects the pointers stored so far
RECURSIVE ParseLoop(_, _, _)
ParseLoop(mem, q, av) ==
  IF mem[q] = NUL THEN [mem |-> mem, argv |-> av]
  ELSE LET s == SkipSpaces(mem, q) IN
       IF s.mem[s.p] = NUL THEN [mem |-> s.mem, argv |-> av]
       ELSE ParseLoop(s.mem, ScanToken(s.mem, s.p), Append(av, s.p))

\* parse(buf, argv) on the array mem, buf pointing at position q: the array
\* as parse leaves it and every entry it wrote to argv, the closing 0 included
parse(mem, q) ==
  LET r == ParseLoop(mem, q, <<>>)
  IN [mem |-> r.mem, argv |-> Append(r.argv, 0)]

\* the strings an argument vector refers to, up to its first null entry
RECURSIVE ArgStrings(_, _)
ArgStrings(mem, av) ==
  IF av = <<>> \/ Head(av) = 0 THEN <<>>
  ELSE <<CStrAt(mem, Head(av))>> \o ArgStrings(mem, Tail(av))

\* ------------------------------------------------------------ strings
Rep(c, n) == [i \in 1..n |-> c]

S_salir == <<"s", "a", "l", "i", "r">>
S_limpiar == <<"l", "i", "m", "p", "i", "a", "r">>
S_historial == <<"h", "i", "s", "t", "o", "r", "i", "a", "l">>
S_ayuda == <<"a", "y", "u", "d", "a">>
S_calc_ == <<"c", "a", "l", "c", SP>>
S_tiempo == <<"t", "i", "e", "m", "p", "o">>
S_listar == <<"l", "i", "s", "t", "a", "r">>
S_leer_ == <<"l", "e", "e", "r", SP>>
S_ls == <<"l", "s">>
S_cat_ == <<"c", "a", "t", SP>>
S_wc == <<"w", "c">>

\* strcmp(a, b) == 0 for two C strings
strcmp(a, b) == IF a = b THEN 0 ELSE 1

\* starts_with(str, prefix), comparing from position i on
RECURSIVE starts_with_from(_, _, _)
starts_with_from(str, prefix, i) ==
  IF CharAt(prefix, i) = NUL THEN 1
  ELSE IF CharAt(str, i) # CharAt(prefix, i) THEN 0
  ELSE starts_with_from(str, prefix, i + 1)

starts_with(str, prefix) == starts_with_from(str, prefix, 1)

\* ------------------------------------------------------------ readline
\* readline(buf, max) on the pending input in; readable: read(0, ..) can
\* return a byte at all.  The loop takes bytes while i < max - 1 and stops
\* at the first that is a newline (consumed, not stored) or at a read that
\* returns less than one byte.  The result is the text stored in buf, the
\* input left unread, and whether a read returned less than one byte; the
\* return value is Len(line).
readline(in, max, readable) ==
  LET seen == IF Len(in) < max - 1 THEN Len(in) ELSE max - 1
      nl == {i \in 1..seen : in[i] = NL}
  IN IF ~readable THEN [line |-> <<>>, rest |-> in, short |-> TRUE]
     ELSE IF nl # {}
       THEN [line |-> SubSeq(in, 1, First(nl) - 1),
             rest |-> SubSeq(in, First(nl) + 1, Len(in)), short |-> FALSE]
     ELSE IF Len(in) >= max - 1
       THEN [line |-> SubSeq(in, 1, max - 1), rest |-> SubSeq(in, max, Len(in)),
             short |-> FALSE]
     ELSE [line |-> in, rest |-> <<>>, short |-> TRUE]

\* readline returns without waiting for more input
ReadReturns(in, max, readable, ended) ==
  \/ ~readable
  \/ ended
  \/ Len(in) >= max - 1
  \/ \E i \in 1..Len(in) : in[i] = NL

\* ------------------------------------------------------------ calculator
Digits == <<"0", "1", "2", "3", "4", "5", "6", "7", "8", "9">>
IsDigit(c) == \E d \in 1..10 : Digits[d] = c
DigitVal(c) == (CHOOSE d \in 1..10 : Digits[d] = c) - 1

\* atoi of xv6: the leading decimal digits, 0 when there are none (the
\* operands typed in the sessions explored stay far below the width of int)
RECURSIVE atoi_from(_, _, _)
atoi_from(str, i, n) ==
  IF IsDigit(CharAt(str, i))
  THEN atoi_from(str, i + 1, n * 10 + DigitVal(CharAt(str, i)))
  ELSE n

atoi(str) == atoi_from(str, 1, 0)

\* a / b of C for b # 0: the quotient truncated toward zero
CDiv(a, b) ==
  LET q == (IF a < 0 THEN -a ELSE a) \div (IF b < 0 THEN -b ELSE b)
  IN IF (a < 0) = (b < 0) THEN q ELSE -q

\* the calculator branch of main once args holds three arguments: what it
\* prints after "Resultado: ", a number through %d or the error text
calc(a, opc, b) ==
  IF opc = "+" THEN <<"Resultado", "%d", a + b>>
  ELSE IF opc = "-" THEN <<"Resultado", "%d", a - b>>
  ELSE IF opc = "*" THEN <<"Resultado", "%d", a * b>>
  ELSE IF opc = "/" /\ b # 0 THEN <<"Resultado", "%d", CDiv(a, b)>>
  ELSE <<"Resultado", "Operacion invalida">>

\* ------------------------------------------------------------ main
\* for (i = 0; buf[i]; i++) if (buf[i] == '|') ...: the position of the
\* first pipe character from i on, 0 (pipepos null) when there is none
FindPipe(mem, i) ==
  LET end == First({j \in i..Len(mem) : mem[j] = NUL})
      bars == {j \in i..(end - 1) : mem[j] = "|"}
  IN IF bars = {} THEN 0 ELSE First(bars)

\* while (*right == ' ') right++;
TrimRight(mem, r) == First({j \in r..Len(mem) : mem[j] # SP})

AliasListar_keep(line) == line

\* strcpy(buf, "ls") for the line "listar"
AliasListar(line) == IF strcmp(line, S_listar) = 0 THEN S_ls ELSE line

\* the rewrite of "leer X" into "cat X" through temp
AliasLeer(line) ==
  IF starts_with(line, S_leer_) = 1
  THEN S_cat_ \o SubSeq(line, 6, Len(line))
  ELSE line

\* what one pass of the loop body of main does with a non-empty line once
\* add_history has run (h, n: history and history_count after it), up to
\* the continue, the exit, or the call of run_cmd or run_pipe
Kept(next, printed) ==
  [next |-> next, buf |-> buf, argv |-> argv, left_args |-> left_args,
   right_args |-> right_args, args |-> args, out |-> printed, over |-> FALSE]

CalcBranch(line) ==
  LET pr == parse(Append(line, NUL), 6)
      a == pr.argv
  IN [Kept("prompt",
           IF Len(a) > 3 /\ a[1] # 0 /\ a[2] # 0 /\ a[3] # 0
           THEN calc(atoi(CStrAt(pr.mem, a[1])), pr.mem[a[2]],
                     atoi(CStrAt(pr.mem, a[3])))
           ELSE <<"Uso: calc n1 op n2">>)
      EXCEPT !.buf = pr.mem, !.args = a, !.over = Len(a) > CALC_ARGS]

PipeBranch(mem, pipepos) ==
  LET cut == [mem EXCEPT ![pipepos] = NUL]
      right == TrimRight(cut, pipepos + 1)
      l == parse(cut, 1)
      r == parse(l.mem, right)
  IN [Kept("pipe_pipe", <<>>)
      EXCEPT !.buf = r.mem, !.left_args = l.argv, !.right_args = r.argv,
             !.over = Len(l.argv) > MAXARGS \/ Len(r.argv) > MAXARGS]

CmdBranch(mem) ==
  LET a == parse(mem, 1)
  IN [Kept("cmd_fork", <<>>)
      EXCEPT !.buf = a.mem, !.argv = a.argv, !.over = Len(a.argv) > MAXARGS]

GenericBranch(line) ==
  LET mem == Append(AliasLeer(AliasListar(line)), NUL)
      pipepos == FindPipe(mem, 1)
  IN IF pipepos # 0 THEN PipeBranch(mem, pipepos) ELSE CmdBranch(mem)

MainBody(line, h, n) ==
  IF strcmp(line, S_salir) = 0
    THEN [Kept("exited", <<"Cerrando eafitos...">>) EXCEPT !.buf = Append(line, NUL)]
  ELSE IF strcmp(line, S_limpiar) = 0
    THEN [Kept("prompt", <<"clear_screen">>) EXCEPT !.buf = Append(line, NUL)]
  ELSE IF strcmp(line, S_historial) = 0
    THEN [Kept("prompt", <<"Ultimos comandos", show_history(h, n)>>)
          EXCEPT !.buf = Append(line, NUL)]
  ELSE IF strcmp(line, S_ayuda) = 0
    THEN [Kept("prompt", <<"Comandos disponibles">>) EXCEPT !.buf = Append(line, NUL)]
  ELSE IF starts_with(line, S_calc_) = 1 THEN CalcBranch(line)
  ELSE IF strcmp(line, S_tiempo) = 0
    THEN [Kept("prompt", <<"Hora actual">>) EXCEPT !.buf = Append(line, NUL)]
  ELSE GenericBranch(line)

\* ------------------------------------------------------------ processes
\* The system calls of xv6 as the shell uses them: descriptors are handed out
\* lowest free first, a fork copies the descriptor table, an exit closes it,
\* and wait returns at once when the caller has no child.
FdRange == 0..(NOFILE - 1)
Roles == {"cmd", "A", "B"}
NoFiles == [fd \in FdRange |-> "none"]
StdFiles == [fd \in FdRange |-> IF fd <= 2 THEN "console" ELSE "none"]
NoProc == [st |-> "none", ofile |-> NoFiles, av |-> <<>>, xstatus |-> 0]
NoPipe == [i \in 0..1 |-> -1]
Running == <<>>

IsOpen(t, fd) == fd \in FdRange /\ t[fd] # "none"
FreeFds(t) == {fd \in FdRange : t[fd] = "none"}
LowestFree(t) == CHOOSE fd \in FreeFds(t) : \A g \in FreeFds(t) : fd <= g

\* close(fd) on the descriptor table t
Close(t, fd) == IF IsOpen(t, fd) THEN [t EXCEPT ![fd] = "none"] ELSE t

\* dup(fd) on the descriptor table t
Dup(t, fd) ==
  IF IsOpen(t, fd) /\ FreeFds(t) # {} THEN [t EXCEPT ![LowestFree(t)] = t[fd]]
  ELSE t

\* the values p[0], p[1] may hold when pipe failed and left p unwritten: any
\* open descriptor, or -1 for every number that is no open descriptor of the
\* shell (these all make close and dup fail alike, in parent and children)
GarbageFds == {-1} \cup {fd \in FdRange : ofile[fd] # "none"}

Zombies == {r \in Roles : procs[r].st = "zombie"}
Live == {r \in Roles : procs[r].st \notin {"none", "zombie"}}

NoChild == "none"

wait_nohang == IF Zombies # {} THEN Zombies ELSE {NoChild}

wait_blocks == IF Zombies # {} THEN Zombies ELSE {}

\* wait(0) in the shell: the children it may return (as their pid), NoChild
\* for the return of -1 when there is no child; no value while it blocks
wait ==
  IF Zombies # {} THEN Zombies
  ELSE IF Live = {} THEN {NoChild}
  ELSE {}

\* the children and the events once wait has returned r
Reap(r) ==
  /\ procs' = IF r = NoChild THEN procs ELSE [procs EXCEPT ![r] = NoProc]
  /\ events' = IF r = NoChild THEN events ELSE Append(events, <<"reap", r>>)

\* fork() for the child `r`: the child exists, or fork returned -1
Fork(r, child) ==
  \E ok \in BOOLEAN :
    /\ procs' = IF ok THEN [procs EXCEPT ![r] = child] ELSE procs
    /\ events' = Append(events, IF ok THEN <<"fork", r>> ELSE <<"fork_failed", r>>)

\* a child as fork leaves it: a copy of the shell, about to run `st`
Forked(st, av) == [st |-> st, ofile |-> ofile, av |-> av, xstatus |-> 0]

\* exit(x) in a child
Exited(x) == [st |-> "zombie", ofile |-> NoFiles, av |-> <<>>, xstatus |-> x]

\* ------------------------------------------------------------ the shell loop
Prompt ==
  /\ pc = "prompt"
  /\ pc' = "read"
  /\ out' = <<"Proyecto1 > ">>
  /\ op' = [name |-> "prompt"]
  /\ events' = <<>>
  /\ UNCHANGED <<histv, parsev, buf, argv, left_args, right_args, args, status,
                 inputv, ofile, p, procs>>

\* the user types a line and ENTER while the shell waits in read
Type(l) ==
  /\ pc = "read" /\ stdin = <<>> /\ ~eof
  /\ Len(typed) < MaxTyped
  /\ stdin' = Append(l, NL)
  /\ typed' = Append(typed, l)
  /\ op' = [name |-> "type"]
  /\ UNCHANGED <<histv, parsev, mainv, out, eof, cmds, eofSeen, pipeFailed, osv>>

\* the input ends, after an unfinished last line or after none
EndOfInput(l) ==
  /\ pc = "read" /\ stdin = <<>> /\ ~eof
  /\ l # <<>> => Len(typed) < MaxTyped
  /\ eof' = TRUE
  /\ stdin' = l
  /\ typed' = IF l # <<>> THEN Append(typed, l) ELSE typed
  /\ op' = [name |-> "eof"]
  /\ UNCHANGED <<histv, parsev, mainv, out, cmds, eofSeen, pipeFailed, osv>>

ReadDispatch_late ==
  /\ pc = "read"
  /\ ReadReturns(stdin, MAXLINE, IsOpen(ofile, 0), eof)
  /\ \E r \in {readline(stdin, MAXLINE, IsOpen(ofile, 0))} :
     /\ stdin' = r.rest
     /\ eofSeen' = (eofSeen \/ (r.short /\ IsOpen(ofile, 0)))
     /\ cmds' = IF r.rest # stdin THEN Append(cmds, r.line) ELSE cmds
     /\ op' = [name |-> "readline"]
     /\ UNCHANGED <<parsev, eof, typed, pipeFailed, osv>>
     /\ IF Len(r.line) <= 0
        THEN /\ pc' = "prompt"
             /\ buf' = <<NUL>>
             /\ out' = <<>>
             /\ UNCHANGED <<histv, argv, left_args, right_args, args, status>>
        ELSE \E e \in {MainBody(r.line, history, history_count)} :
                \E fault \in (IF e.over THEN {FALSE, TRUE} ELSE {FALSE}) :
                  /\ add_history(CStrAt(e.buf, 1))
                  /\ recorded' = Append(recorded, CStrAt(e.buf, 1))
                  /\ pc' = IF fault THEN "killed" ELSE e.next
                  /\ status' = IF fault THEN <<-1>>
                               ELSE IF e.next = "exited" THEN <<0>> ELSE status
                  /\ out' = IF fault THEN <<>> ELSE e.out
                  /\ buf' = e.buf
                  /\ argv' = e.argv
                  /\ left_args' = e.left_args
                  /\ right_args' = e.right_args
                  /\ args' = e.args

\* one pass of the loop of main from readline on: to the continue, the exit,
\* or the entry of run_cmd / run_pipe.  A parse that writes past the end of
\* its array has undefined behaviour: the pass goes on as if nothing happened,
\* or the process is killed by the fault.
ReadDispatch ==
  /\ pc = "read"
  /\ ReadReturns(stdin, MAXLINE, IsOpen(ofile, 0), eof)
  /\ \E r \in {readline(stdin, MAXLINE, IsOpen(ofile, 0))} :
     /\ stdin' = r.rest
     /\ eofSeen' = (eofSeen \/ (r.short /\ IsOpen(ofile, 0)))
     /\ cmds' = IF r.rest # stdin THEN Append(cmds, r.line) ELSE cmds
     /\ op' = [name |-> "readline"]
     /\ UNCHANGED <<parsev, eof, typed, pipeFailed, osv>>
     /\ IF Len(r.line) <= 0
        THEN /\ pc' = "prompt"
             /\ buf' = <<NUL>>
             /\ out' = <<>>
             /\ UNCHANGED <<histv, argv, left_args, right_args, args, status>>
        ELSE /\ add_history(r.line)
             /\ recorded' = Append(recorded, r.line)
             /\ \E e \in {MainBody(r.line, history', history_count')} :
                \E fault \in (IF e.over THEN {FALSE, TRUE} ELSE {FALSE}) :
                  /\ pc' = IF fault THEN "killed" ELSE e.next
                  /\ status' = IF fault THEN <<-1>>
                               ELSE IF e.next = "exited" THEN <<0>> ELSE status
                  /\ out' = IF fault THEN <<>> ELSE e.out
                  /\ buf' = e.buf
                  /\ argv' = e.argv
                  /\ left_args' = e.left_args
                  /\ right_args' = e.right_args
                  /\ args' = e.args

\* ------------------------------------------------------------ run_cmd
CmdFork ==
  /\ pc = "cmd_fork"
  /\ Fork("cmd", Forked("ready", ArgStrings(buf, argv)))
  /\ pc' = "cmd_wait"
  /\ op' = [name |-> "fork"]
  /\ UNCHANGED <<histv, parsev, buf, argv, left_args, right_args, args, status,
                 inputv, out, ofile, p>>

CmdWait ==
  /\ pc = "cmd_wait"
  /\ \E r \in wait : Reap(r)
  /\ pc' = "prompt"
  /\ op' = [name |-> "wait"]
  /\ UNCHANGED <<histv, parsev, buf, argv, left_args, right_args, args, status,
                 inputv, out, ofile, p>>

\* ------------------------------------------------------------ run_pipe
\* pipe(p): two descriptors, or a failure that leaves p as it was found
PipeCreate ==
  /\ pc = "pipe_pipe"
  /\ \/ /\ Cardinality(FreeFds(ofile)) >= 2
        /\ LET r == LowestFree(ofile)
               t == [ofile EXCEPT ![r] = "pipeR"]
               w == LowestFree(t)
           IN /\ ofile' = [t EXCEPT ![w] = "pipeW"]
              /\ p' = (0 :> r @@ 1 :> w)
              /\ events' = Append(events, <<"pipe", "ok">>)
              /\ pipeFailed' = pipeFailed
     \/ /\ \E g0 \in GarbageFds, g1 \in GarbageFds : p' = (0 :> g0 @@ 1 :> g1)
        /\ ofile' = ofile
        /\ events' = Append(events, <<"pipe", "failed">>)
        /\ pipeFailed' = TRUE
  /\ pc' = "pipe_fork1"
  /\ op' = [name |-> "pipe"]
  /\ UNCHANGED <<histv, parsev, buf, argv, left_args, right_args, args, status,
                 stdin, eof, typed, cmds, eofSeen, out, procs>>

PipeFork1 ==
  /\ pc = "pipe_fork1"
  /\ Fork("A", Forked("forked", ArgStrings(buf, left_args)))
  /\ pc' = "pipe_fork2"
  /\ op' = [name |-> "fork"]
  /\ UNCHANGED <<histv, parsev, buf, argv, left_args, right_args, args, status,
                 inputv, out, ofile, p>>

PipeFork2 ==
  /\ pc = "pipe_fork2"
  /\ Fork("B", Forked("forked", ArgStrings(buf, right_args)))
  /\ pc' = "pipe_close0"
  /\ op' = [name |-> "fork"]
  /\ UNCHANGED <<histv, parsev, buf, argv, left_args, right_args, args, status,
                 inputv, out, ofile, p>>

PipeClose0_skip ==
  /\ pc = "pipe_close0"
  /\ pc' = "pipe_close1"
  /\ op' = [name |-> "close"]
  /\ UNCHANGED <<histv, parsev, buf, argv, left_args, right_args, args, status,
                 inputv, out, ofile, p, procs, events>>

PipeClose0 ==
  /\ pc = "pipe_close0"
  /\ ofile' = Close(ofile, p[0])
  /\ pc' = "pipe_close1"
  /\ op' = [name |-> "close"]
  /\ UNCHANGED <<histv, parsev, buf, argv, left_args, right_args, args, status,
                 inputv, out, p, procs, events>>

PipeClose1_skip ==
  /\ pc = "pipe_close1"
  /\ pc' = "pipe_wait1"
  /\ op' = [name |-> "close"]
  /\ UNCHANGED <<histv, parsev, buf, argv, left_args, right_args, args, status,
                 inputv, out, ofile, p, procs, events>>

PipeClose1 ==
  /\ pc = "pipe_close1"
  /\ ofile' = Close(ofile, p[1])
  /\ pc' = "pipe_wait1"
  /\ op' = [name |-> "close"]
  /\ UNCHANGED <<histv, parsev, buf, argv, left_args, right_args, args, status,
                 inputv, out, p, procs, events>>

PipeWait1 ==
  /\ pc = "pipe_wait1"
  /\ \E r \in wait : Reap(r)
  /\ pc' = "pipe_wait2"
  /\ op' = [name |-> "wait"]
  /\ UNCHANGED <<histv, parsev, buf, argv, left_args, right_args, args, status,
                 inputv, out, ofile, p>>

\* the second wait and the return of run_pipe, where p goes out of scope
PipeWait2 ==
  /\ pc = "pipe_wait2"
  /\ \E r \in wait : Reap(r)
  /\ pc' = "prompt"
  /\ p' = NoPipe
  /\ op' = [name |-> "wait"]
  /\ UNCHANGED <<histv, parsev, buf, argv, left_args, right_args, args, status,
                 inputv, out, ofile>>

\* ------------------------------------------------------------ the children
SetupA_keepR(t) == Close(Dup(Close(t, 1), p[1]), p[1])

\* child A between fork and exec: close(1); dup(p[1]); close(p[0]); close(p[1])
SetupA(t) == Close(Close(Dup(Close(t, 1), p[1]), p[0]), p[1])

SetupB_keepW(t) == Close(Dup(Close(t, 0), p[0]), p[0])

\* child B between fork and exec: close(0); dup(p[0]); close(p[1]); close(p[0])
SetupB(t) == Close(Close(Dup(Close(t, 0), p[0]), p[1]), p[0])

ChildSetup(r) ==
  /\ r \in {"A", "B"}
  /\ procs[r].st = "forked"
  /\ procs' = [procs EXCEPT ![r].st = "ready",
                            ![r].ofile = IF r = "A" THEN SetupA(@) ELSE SetupB(@)]
  /\ op' = [name |-> "child_setup"]
  /\ UNCHANGED <<histv, parsev, mainv, inputv, out, ofile, p, events>>

ChildExec_return(r) ==
  /\ procs[r].st = "ready"
  /\ \E ok \in (IF procs[r].av = <<>> THEN {FALSE} ELSE BOOLEAN) :
       /\ procs' = [procs EXCEPT ![r].st = IF ok THEN "running" ELSE "returned"]
       /\ out' = IF ~ok /\ r = "cmd" THEN <<"Error ejecutando comando">> ELSE out
  /\ op' = [name |-> "exec"]
  /\ UNCHANGED <<histv, parsev, mainv, inputv, ofile, p, events>>

\* exec(argv[0], argv) in a child: the program runs in its place, or exec
\* returns and the child exits with 1 (a null argv[0] names no program)
ChildExec(r) ==
  /\ procs[r].st = "ready"
  /\ \E ok \in (IF procs[r].av = <<>> THEN {FALSE} ELSE BOOLEAN) :
       /\ procs' = [procs EXCEPT ![r] = IF ok THEN [@ EXCEPT !.st = "running"]
                                         ELSE Exited(1)]
       /\ out' = IF ~ok /\ r = "cmd" THEN <<"Error ejecutando comando">> ELSE out
  /\ op' = [name |-> "exec"]
  /\ UNCHANGED <<histv, parsev, mainv, inputv, ofile, p, events>>

\* the program a child runs comes to its end
ChildExit(r) ==
  /\ procs[r].st = "running"
  /\ \E x \in {0, 1} : procs' = [procs EXCEPT ![r] = Exited(x)]
  /\ op' = [name |-> "child_exit"]
  /\ UNCHANGED <<histv, parsev, mainv, inputv, out, ofile, p, events>>

\* ------------------------------------------------------------ Spec
\* fifty arguments in MAXLINE - 1 characters: a a a ... a
ManyArgs == [i \in 1..(MAXLINE - 1) |-> IF i % 2 = 1 THEN "a" ELSE SP]

\* the lines a user types in the sessions explored
TypedLines ==
  { <<>>,
    S_salir,
    S_historial,
    S_ls,
    S_ls \o <<SP, "|", SP>> \o S_wc,
    <<"|">>,
    <<SP, SP>>,
    S_calc_ \o <<"1", SP, "+", SP, "2", SP, "3">>,
    ManyArgs,
    Rep("x", MAXLINE - 1) \o S_salir }

NoOp == [name |-> "none"]

InitGlobals ==
  /\ history = [k \in 0..(HISTORY_SIZE - 1) |-> <<>>]
  /\ history_count = 0
  /\ recorded = <<>>
  /\ out = <<>>
  /\ op = NoOp

InitParseIdle ==
  /\ pline = <<>>
  /\ pres = NotParsed

InitShell ==
  /\ pc = "prompt"
  /\ buf = <<NUL>>
  /\ argv = <<>>
  /\ left_args = <<>>
  /\ right_args = <<>>
  /\ args = <<>>
  /\ status = Running
  /\ stdin = <<>>
  /\ eof = FALSE
  /\ typed = <<>>
  /\ cmds = <<>>
  /\ eofSeen = FALSE
  /\ pipeFailed = FALSE
  /\ ofile = StdFiles
  /\ p = NoPipe
  /\ procs = [r \in Roles |-> NoProc]
  /\ events = <<>>

Init == InitGlobals /\ InitParseIdle /\ InitShell

Next ==
  \/ Prompt
  \/ \E l \in TypedLines : Type(l)
  \/ \E l \in {<<>>, S_ls} : EndOfInput(l)
  \/ ReadDispatch
  \/ CmdFork
  \/ CmdWait
  \/ PipeCreate
  \/ PipeFork1
  \/ PipeFork2
  \/ PipeClose0
  \/ PipeClose1
  \/ PipeWait1
  \/ PipeWait2
  \/ \E r \in Roles : ChildSetup(r)
  \/ \E r \in Roles : ChildExec(r)
  \/ \E r \in Roles : ChildExit(r)

Spec == Init /\ [][Next]_vars

\* ------------------------------------------------------------ SpecHistory
\* add_history and show_history called in any order, as main calls them
HistLines == {<<>>, <<"a">>, <<"b">>}

InitHistory == InitGlobals /\ InitParseIdle /\ InitShell

AddHistory(cmd) ==
  /\ cmd # <<>> => Len(recorded) < MaxRecords
  /\ add_history(cmd)
  /\ recorded' = IF cmd = <<>> THEN recorded ELSE Append(recorded, cmd)
  /\ out' = <<>>
  /\ op' = [name |-> "add_history", cmd |-> cmd]
  /\ UNCHANGED <<parsev, mainv, inputv, osv>>

ShowHistory ==
  /\ out' = show_history(history, history_count)
  /\ op' = [name |-> "show_history"]
  /\ UNCHANGED <<histv, parsev, mainv, inputv, osv>>

NextHistory ==
  \/ \E cmd \in HistLines : AddHistory(cmd)
  \/ ShowHistory

SpecHistory == InitHistory /\ [][NextHistory]_vars

\* ------------------------------------------------------------ SpecParse
\* parse applied to every line over ParseAlphabet of at most MaxParseLen
ParseAlphabet == {"a", "b", SP}

RECURSIVE LinesUpTo(_)
LinesUpTo(n) ==
  IF n = 0 THEN {<<>>}
  ELSE LET shorter == LinesUpTo(n - 1)
       IN shorter \cup {Append(l, c) : l \in {x \in shorter : Len(x) = n - 1},
                                       c \in ParseAlphabet}

InitParse ==
  /\ InitGlobals
  /\ InitShell
  /\ pline \in LinesUpTo(MaxParseLen)
  /\ pres = NotParsed

DoParse ==
  /\ pres = NotParsed
  /\ pres' = parse(Append(pline, NUL), 1)
  /\ op' = [name |-> "parse"]
  /\ UNCHANGED <<histv, out, pline, mainv, inputv, osv>>

NextParse == DoParse

SpecParse == InitParse /\ [][NextParse]_vars

\* ------------------------------------------------------------ SpecDispatch
\* sessions of the shell over the builtins, their near misses, the aliases
\* and pipe lines
\* lines typed in a session of SpecDispatch
MaxDispatch == 1

L_leer_f == S_leer_ \o <<"f">>
L_cat_f == S_cat_ \o <<"f">>
L_leer_pipe == S_leer_ \o <<"f", "|", "w">>
L_cat_pipe == S_cat_ \o <<"f", "|", "w">>
L_chain == <<"a", "|", "b", "|", "c">>
L_trim == <<"a", SP, "|", SP, SP, "b", SP, "|", "c">>

DispatchLines ==
  { S_salir, S_limpiar, S_historial, S_ayuda, S_tiempo,
    S_salir \o <<SP>>, S_ayuda \o <<SP, "x">>, <<"c", "a", "l", "c">>,
    S_calc_ \o <<"4", SP, "+", SP, "5">>,
    S_calc_ \o <<"9", SP, "-", SP, "1", "2">>,
    S_calc_ \o <<"3", SP, "*", SP, "4">>,
    S_calc_ \o <<"9", SP, "/", SP, "2">>,
    S_calc_ \o <<"4", SP, "/", SP, "0">>,
    S_calc_ \o <<"4", SP, "%", SP, "5">>,
    S_calc_ \o <<"x", SP, "+", SP, "1">>,
    S_calc_ \o <<"4", SP, "+">>,
    S_listar, S_ls, L_leer_f, L_cat_f, L_leer_pipe, L_cat_pipe,
    L_chain, L_trim, <<SP, SP>> }

NextDispatch ==
  \/ Prompt
  \/ \E l \in DispatchLines : Len(typed) < MaxDispatch /\ Type(l)
  \/ ReadDispatch
  \/ CmdFork
  \/ CmdWait
  \/ PipeCreate
  \/ PipeFork1
  \/ PipeFork2
  \/ PipeClose0
  \/ PipeClose1
  \/ PipeWait1
  \/ PipeWait2
  \/ \E r \in Roles : ChildSetup(r)
  \/ \E r \in Roles : ChildExec(r)
  \/ \E r \in Roles : ChildExit(r)

SpecDispatch == Init /\ [][NextDispatch]_vars

\* ------------------------------------------------------------ SpecEof, SpecLaunch
\* sessions of a single command and of a pipe, with the scheduling of xv6:
\* a process that can take a step takes it in the end
LaunchLines == {S_ls, S_ls \o <<SP, "|", SP>> \o S_wc}

NextLaunch ==
  \/ Prompt
  \/ \E l \in LaunchLines : Type(l)
  \/ ReadDispatch
  \/ CmdFork
  \/ CmdWait
  \/ PipeCreate
  \/ PipeFork1
  \/ PipeFork2
  \/ PipeClose0
  \/ PipeClose1
  \/ PipeWait1
  \/ PipeWait2
  \/ \E r \in Roles : ChildSetup(r)
  \/ \E r \in Roles : ChildExec(r)
  \/ \E r \in Roles : ChildExit(r)

\* the steps of the shell process inside run_cmd and run_pipe
LauncherStep ==
  \/ CmdFork
  \/ CmdWait
  \/ PipeCreate
  \/ PipeFork1
  \/ PipeFork2
  \/ PipeClose0
  \/ PipeClose1
  \/ PipeWait1
  \/ PipeWait2

\* the shell inside a launcher and each child up to its exec are scheduled
Scheduled ==
  /\ WF_vars(LauncherStep)
  /\ \A r \in Roles : WF_vars(ChildSetup(r)) /\ WF_vars(ChildExec(r))

HoldsW(t) == \E fd \in FdRange : t[fd] = "pipeW"

\* some process holds the write end of the pipe open
WriteEndOpen == HoldsW(ofile) \/ \E r \in Roles : HoldsW(procs[r].ofile)

\* a read of standard input by the child r returns less than one byte: the
\* descriptor is closed, or it is the read end of a pipe nobody can write to
ReadEnds(r) ==
  \/ ~IsOpen(procs[r].ofile, 0)
  \/ procs[r].ofile[0] = "pipeR" /\ ~WriteEndOpen

\* the programs of run_cmd and of the left side come to their end; the
\* program of the right side ends once its input has
SpecEof ==
  /\ Init /\ [][NextLaunch]_vars
  /\ Scheduled
  /\ WF_vars(ChildExit("cmd"))
  /\ WF_vars(ChildExit("A"))
  /\ WF_vars(ReadEnds("B") /\ ChildExit("B"))

\* every program a child runs comes to its end
SpecLaunch ==
  /\ Init /\ [][NextLaunch]_vars
  /\ Scheduled
  /\ \A r \in Roles : WF_vars(ChildExit(r))

\* ------------------------------------------------------------ claims
Min(a, b) == IF a < b THEN a ELSE b

\* C1: after add_history recorded total non-empty lines, show_history prints
\* exactly the last min(total, 10) of them, in increasing order, each with its
\* 1-based position among all the lines ever recorded and with the text
\* recorded under that number.
C1_ShowsLastTen ==
  op.name = "show_history" =>
    LET total == Len(recorded)
        m == Min(total, HISTORY_SIZE)
    IN out = [k \in 1..m |-> <<total - m + k, recorded[total - m + k]>>]

\* twelve lines were recorded and the listing starts at number 3
C1_Witness ==
  /\ op.name = "show_history"
  /\ Len(recorded) = 12
  /\ Len(out) = 10 /\ out[1][1] = 3 /\ out[10][1] = 12
  /\ out[1][2] # out[2][2]

\* C2: add_history of the empty string changes neither history_count nor any
\* of the history slots.
C2_EmptyIsNoOp ==
  [][op' = [name |-> "add_history", cmd |-> <<>>] =>
       (history' = history /\ history_count' = history_count)]_vars

\* the empty string was handed to add_history after two lines were recorded
C2_Witness ==
  /\ op = [name |-> "add_history", cmd |-> <<>>]
  /\ history_count = 2

\* the maximal runs of non-space characters of a line, left to right
RunStarts(l) == {i \in 1..Len(l) : l[i] # SP /\ (i = 1 \/ l[i - 1] = SP)}
RunEnd(l, i) == CHOOSE j \in i..Len(l) :
                  /\ \A k \in i..j : l[k] # SP
                  /\ (j = Len(l) \/ l[j + 1] = SP)
RECURSIVE RunsFrom(_, _)
RunsFrom(l, starts) ==
  IF starts = {} THEN <<>>
  ELSE LET i == CHOOSE x \in starts : \A y \in starts : x <= y
       IN <<SubSeq(l, i, RunEnd(l, i))>> \o RunsFrom(l, starts \ {i})
Runs(l) == RunsFrom(l, RunStarts(l))

\* C7: parse yields exactly the maximal non-space runs of the line, in order,
\* followed by the null sentinel; no argument is empty, and an empty or
\* all-space line yields a vector of length 0.
C7_ParseIsRuns ==
  pres # NotParsed =>
    /\ ArgStrings(pres.mem, pres.argv) = Runs(pline)
    /\ Len(pres.argv) = Len(Runs(pline)) + 1
    /\ pres.argv[Len(pres.argv)] = 0
    /\ \A k \in 1..(Len(pres.argv) - 1) : pres.argv[k] # 0

\* "a  b   b" was parsed into [a, b, b]
C7_Witness ==
  /\ pline = <<"a", SP, SP, "b", SP, SP, SP, "b">>
  /\ pres # NotParsed
  /\ ArgStrings(pres.mem, pres.argv) = <<<<"a">>, <<"b">>, <<"b">>>>

\* C3: whenever the shell is about to print the prompt, or has just printed
\* it, no child it spawned is still running, after run_cmd as after run_pipe
\* and in whatever order the two pipe children ended.
C3_NoChildAtPrompt ==
  (pc = "prompt" \/ op.name = "prompt") => Live = {}

\* run_pipe has returned to the prompt after both children were spawned and
\* the right one ended first
C3_Witness ==
  /\ pc = "prompt"
  /\ events = <<<<"pipe", "ok">>, <<"fork", "A">>, <<"fork", "B">>,
                <<"reap", "B">>, <<"reap", "A">>>>

PipeEnds(t) == {fd \in FdRange : t[fd] \in {"pipeR", "pipeW"}}
PipeMade == \E k \in 1..Len(events) : events[k] = <<"pipe", "ok">>

\* C4: whenever the parent is in one of the two wait calls of run_pipe it
\* holds neither end of the pipe; the ends are closed only after both forks,
\* so a child spawned beside an existing pipe starts with both of them.
C4_ParentClosedBeforeWait ==
  /\ pc \in {"pipe_wait1", "pipe_wait2"} => PipeEnds(ofile) = {}
  /\ (PipeMade /\ pc \in {"pipe_fork1", "pipe_fork2", "pipe_close0"})
       => Cardinality(PipeEnds(ofile)) = 2
  /\ \A r \in {"A", "B"} :
       (PipeMade /\ procs[r].st = "forked") => Cardinality(PipeEnds(procs[r].ofile)) = 2

\* the parent waits for two live children of a pipe it created on 3 and 4
C4_Witness ==
  /\ pc = "pipe_wait1"
  /\ PipeMade /\ p = (0 :> 3 @@ 1 :> 4)
  /\ procs["A"].st = "running" /\ procs["B"].st = "running"
  /\ procs["B"].ofile[0] = "pipeR" /\ procs["A"].ofile[1] = "pipeW"

Terminated == pc \in {"exited", "killed"}

\* C5: the shell process has terminated exactly when the last line it read
\* is "salir", and then with status 0; nothing else ends it.
C5_OnlySalirTerminates ==
  /\ Terminated => (cmds # <<>> /\ cmds[Len(cmds)] = S_salir /\ status = <<0>>)
  /\ (cmds # <<>> /\ cmds[Len(cmds)] = S_salir) => pc = "exited"

\* C6: once a read has found the input exhausted the shell prints no further
\* prompt and makes no further attempt to read.
C6_StopsAtEndOfInput ==
  [][eofSeen => /\ ~(pc = "prompt" /\ pc' = "read")
                /\ ~(pc = "read" /\ pc' # "read")]_vars

\* C8: parse never writes an entry, the closing null included, beyond the
\* array it was given: MAXARGS entries for argv, left_args and right_args,
\* four for the calculator's args.
C8_ArgvWithinCapacity ==
  /\ Len(argv) <= MAXARGS
  /\ Len(left_args) <= MAXARGS
  /\ Len(right_args) <= MAXARGS
  /\ Len(args) <= CALC_ARGS

InRunPipe ==
  pc \in {"pipe_pipe", "pipe_fork1", "pipe_fork2", "pipe_close0", "pipe_close1",
          "pipe_wait1", "pipe_wait2"}

\* C9: run_pipe is entered only with a left and a right argument vector that
\* each hold at least one argument.
C9_PipeSidesNonEmpty ==
  InRunPipe => (ArgStrings(buf, left_args) # <<>> /\ ArgStrings(buf, right_args) # <<>>)

Truncated(l) == IF Len(l) > MAXLINE - 1 THEN SubSeq(l, 1, MAXLINE - 1) ELSE l
NonEmpty(l) == l # <<>>

\* C10: each typed line is processed once, cut to MAXLINE - 1 characters:
\* the non-empty lines readline has returned are, in order, the non-empty
\* typed lines so cut, and none comes from the excess of a long line.
C10_OneCommandPerLine ==
  LET got == SelectSeq(cmds, NonEmpty)
      want == SelectSeq([k \in 1..Len(typed) |-> Truncated(typed[k])], NonEmpty)
  IN /\ Len(got) <= Len(want)
     /\ \A k \in 1..Len(got) : got[k] = want[k]

\* the line of the pass of main that has just dispatched: readline returned it
\* non-empty and the pass went up to its continue, its exit, the call of a
\* launcher, or the fault
LastCmd == cmds[Len(cmds)]
Dispatched ==
  /\ op.name = "readline"
  /\ cmds # <<>>
  /\ (pc # "prompt" \/ CharAt(buf, 1) # NUL)

HasPrefix(l, pre) == Len(l) >= Len(pre) /\ SubSeq(l, 1, Len(pre)) = pre
NoneSpawned == events = <<>> /\ \A r \in Roles : procs[r] = NoProc

\* the integer a decimal token stands for: its leading digits, 0 without any
RECURSIVE DecimalValue(_, _)
DecimalValue(tok, n) ==
  IF n = 0 THEN 0 ELSE 10 * DecimalValue(tok, n - 1) + DigitVal(tok[n])
IntegerValue(tok) ==
  DecimalValue(tok, First({i \in 1..Len(tok) : ~IsDigit(tok[i])} \cup {Len(tok) + 1}) - 1)

\* C11: a line "calc A OP B" with at least three tokens after the prefix
\* prints a+b, a-b, a*b for OP +, -, *, prints a/b for / with b # 0, and
\* prints an error and no number for / with b = 0 and for any other operator
\* character; with fewer than three tokens it prints the usage error.  In
\* every case no process is spawned and the loop goes on to the next prompt.
C11_CalcContract ==
  (Dispatched /\ HasPrefix(LastCmd, S_calc_)) =>
    LET t == Runs(SubSeq(LastCmd, 6, Len(LastCmd)))
    IN /\ pc = "prompt"
       /\ NoneSpawned
       /\ IF Len(t) < 3 THEN out = <<"Uso: calc n1 op n2">>
          ELSE LET a == IntegerValue(t[1])
                   b == IntegerValue(t[3])
                   o == t[2][1]
               IN IF o = "+" THEN out = <<"Resultado", "%d", a + b>>
                  ELSE IF o = "-" THEN out = <<"Resultado", "%d", a - b>>
                  ELSE IF o = "*" THEN out = <<"Resultado", "%d", a * b>>
                  ELSE IF o = "/" /\ b # 0 THEN out = <<"Resultado", "%d", CDiv(a, b)>>
                  ELSE Len(out) = 2 /\ out[2] = "Operacion invalida"

\* the call of a launcher the shell is about to make: the launcher and the
\* strings of its argument vectors
Invocation ==
  IF pc = "cmd_fork" THEN <<"run_cmd", ArgStrings(buf, argv)>>
  ELSE IF pc = "pipe_pipe"
    THEN <<"run_pipe", ArgStrings(buf, left_args), ArgStrings(buf, right_args)>>
  ELSE <<"none">>

\* the same for the outcome e of a pass of main
InvocationOf(e) ==
  IF e.next = "cmd_fork" THEN <<"run_cmd", ArgStrings(e.buf, e.argv)>>
  ELSE IF e.next = "pipe_pipe"
    THEN <<"run_pipe", ArgStrings(e.buf, e.left_args), ArgStrings(e.buf, e.right_args)>>
  ELSE <<"none">>

IsAlias(l) == l = S_listar \/ HasPrefix(l, S_leer_)

\* the command an alias line stands for, typed directly
Direct(l) == IF l = S_listar THEN S_ls ELSE S_cat_ \o SubSeq(l, 6, Len(l))

\* run_cmd has returned to the prompt
CmdReturned == pc = "prompt" /\ op.name = "wait" /\ cmds # <<>>

\* what run_cmd leaves in events: one child and its reaping, or a failed fork
CmdRuns == {<<<<"fork", "cmd">>, <<"reap", "cmd">>>>, <<<<"fork_failed", "cmd">>>>}

\* C12: the line "listar" makes the launcher call that typing "ls" makes
\* (run_cmd on ["ls"], one child, one wait), and a line "leer P" the call
\* that typing "cat P" makes, also when P holds a pipe character; the line
\* recorded in history is the one typed.
C12_AliasAsDirect ==
  /\ (Dispatched /\ IsAlias(LastCmd)) =>
       /\ Invocation # <<"none">>
       /\ Invocation = InvocationOf(MainBody(Direct(LastCmd), history, history_count))
       /\ CStrAt(buf, 1) = CStrAt(MainBody(Direct(LastCmd), history, history_count).buf, 1)
       /\ recorded[Len(recorded)] = LastCmd
  /\ (Dispatched /\ LastCmd = S_listar) => Invocation = <<"run_cmd", <<S_ls>>>>
  /\ (CmdReturned /\ LastCmd \in {S_listar, S_ls}) => events \in CmdRuns

\* "leer f|w" has been dispatched to run_pipe as cat f | w
C12_Witness ==
  /\ Dispatched /\ LastCmd = L_leer_pipe
  /\ Invocation = <<"run_pipe", <<<<"c", "a", "t">>, <<"f">>>>, <<<<"w">>>>>>

\* the terminal builtins, matched on the line as typed
IsBuiltin(l) ==
  \/ l \in {S_salir, S_limpiar, S_historial, S_ayuda, S_tiempo}
  \/ HasPrefix(l, S_calc_)

\* the line that reaches generic execution for the typed line l
Effective(l) == IF IsAlias(l) THEN Direct(l) ELSE l

Bars(x) == {i \in 1..Len(x) : x[i] = "|"}

\* the children a launcher has asked for since the prompt, by role, whether
\* fork created them or failed
IsSpawn(e) == e[1] \in {"fork", "fork_failed"}
Spawns == LET f == SelectSeq(events, IsSpawn) IN [k \in 1..Len(f) |-> f[k][2]]

\* a launcher has returned to the prompt
LauncherReturned == pc = "prompt" /\ op.name = "wait" /\ cmds # <<>>

\* C13: a line that reaches generic execution with a pipe character in it is
\* split at the first one only, the right side without its leading spaces,
\* and two children are spawned for it, never a third; a later pipe character
\* is argument text of the right command.  A line without a pipe character
\* spawns one child.
C13_OnePipeStage ==
  /\ (Dispatched /\ ~IsBuiltin(LastCmd)) =>
       LET x == Effective(LastCmd)
       IN IF Bars(x) # {}
          THEN Invocation = <<"run_pipe", Runs(SubSeq(x, 1, First(Bars(x)) - 1)),
                              Runs(SubSeq(x, First(Bars(x)) + 1, Len(x)))>>
          ELSE Invocation = <<"run_cmd", Runs(x)>>
  /\ LauncherReturned =>
       Spawns = IF Bars(LastCmd) # {} THEN <<"A", "B">> ELSE <<"cmd">>
  /\ Len(Spawns) <= 2

Has(e) == \E k \in 1..Len(events) : events[k] = e

\* run_pipe has its pipe and both its children
PipeUnderWay == Has(<<"pipe", "ok">>) /\ Has(<<"fork", "A">>) /\ Has(<<"fork", "B">>)

\* C14: in run_pipe, pipe and both forks having succeeded, once the left
\* child has ended the write end of the pipe is in the end open in no
\* process, neither in the parent nor in the right child, so the right
\* child's read returns end-of-input; the right child ending once it has
\* seen it, run_pipe returns and the shell reaches the next prompt.
C14_EndOfStreamReaches ==
  /\ (PipeUnderWay /\ procs["A"].st \in {"zombie", "none"}) ~> ~WriteEndOpen
  /\ PipeUnderWay ~> (pc = "prompt")
  /\ [](procs["B"].st \in {"ready", "running"} => ~HoldsW(procs["B"].ofile))

\* the left child has ended, the right one runs and reads the pipe, whose
\* write end is closed everywhere, while the parent waits
C14_Witness ==
  /\ PipeUnderWay
  /\ pc = "pipe_wait1"
  /\ procs["A"].st = "zombie"
  /\ procs["B"].st = "running" /\ procs["B"].ofile[0] = "pipeR"
  /\ ~WriteEndOpen

\* pipe gave run_pipe the descriptors 3 and 4: the shell held 0, 1 and 2,
\* and descriptors are handed out lowest free first
PipeOn34 == Has(<<"pipe", "ok">>) /\ p = (0 :> 3 @@ 1 :> 4)

AtExec(r) == procs[r].st \in {"ready", "running"}

\* C15: when the left child calls exec its descriptor 1 is the write end of
\* the pipe and it holds no other descriptor of the pipe; when the right
\* child calls exec its descriptor 0 is the read end and it holds no other;
\* the left child's descriptor 0 and the right child's descriptor 1 are
\* those of the shell.
C15_DescriptorHandoff ==
  PipeOn34 =>
    /\ AtExec("A") =>
         /\ procs["A"].ofile[1] = "pipeW"
         /\ PipeEnds(procs["A"].ofile) = {1}
         /\ procs["A"].ofile[0] = ofile[0]
         /\ procs["A"].ofile[0] = "console"
    /\ AtExec("B") =>
         /\ procs["B"].ofile[0] = "pipeR"
         /\ PipeEnds(procs["B"].ofile) = {0}
         /\ procs["B"].ofile[1] = ofile[1]
         /\ procs["B"].ofile[1] = "console"

\* both children are about to call exec, the parent still before its closes
C15_Witness ==
  /\ PipeOn34
  /\ pc = "pipe_close0"
  /\ procs["A"].st = "ready" /\ procs["B"].st = "ready"
  /\ procs["A"].ofile[1] = "pipeW" /\ procs["B"].ofile[0] = "pipeR"
  /\ procs["A"].ofile[3] = "none" /\ procs["B"].ofile[4] = "none"

\* what a child can be doing: nothing of the loop of main
ChildStates == {"none", "forked", "ready", "running", "zombie"}

\* C16: a child whose exec fails, in run_cmd as in both children of run_pipe,
\* exits with status 1 and never goes on into the loop of main; the parent
\* sees only that a child has ended: the failure changes neither its history
\* nor its place in the loop, and its wait takes it on as after any exit.
C16_ExecFailureIsLocal ==
  [][/\ op'.name = "exec" =>
          /\ UNCHANGED <<histv, mainv, inputv, ofile, p>>
          /\ \A r \in Roles :
               procs'[r] # procs[r] =>
                 \/ procs'[r].st = "running"
                 \/ procs'[r] = Exited(1)
     /\ \A r \in Roles : procs'[r].st \in ChildStates
     /\ op'.name = "wait" =>
          /\ UNCHANGED <<histv, buf, argv, left_args, right_args, args, status, ofile>>
          /\ pc' = IF pc = "pipe_wait1" THEN "pipe_wait2" ELSE "prompt"]_vars

\* the exec of the child of run_cmd has failed: it printed the error and
\* exited with 1 while the parent waits
C16_Witness ==
  /\ op.name = "exec"
  /\ pc = "cmd_wait"
  /\ procs["cmd"] = Exited(1)
  /\ out = <<"Error ejecutando comando">>
  /\ recorded = <<S_ls>>

\* a fork of the launcher under way has failed
ForkFailed == \E k \in 1..Len(events) : events[k][1] = "fork_failed"

\* C17: when fork fails in run_cmd, or one or both forks fail in run_pipe,
\* the shell does not end and is not left in wait for ever: every child that
\* was created coming to its end, the shell is back at the prompt with no
\* child left, a wait without a child returning at once.
C17_ForkFailureIsolated ==
  /\ ForkFailed ~> (pc = "prompt" /\ \A r \in Roles : procs[r] = NoProc)
  /\ [](ForkFailed => ~Terminated)

\* run_pipe is back at the prompt: its first fork failed, its second child
\* was reaped by the first wait and the second wait found no child
C17_Witness ==
  /\ pc = "prompt"
  /\ events = <<<<"pipe", "ok">>, <<"fork_failed", "A">>, <<"fork", "B">>,
                <<"reap", "B">>>>
  /\ \A r \in Roles : procs[r] = NoProc

\* the non-empty lines readline has returned, in order
LinesRead == SelectSeq(cmds, NonEmpty)

\* C18: every non-empty line the loop reads is recorded once, before the
\* builtins are tried and before any rewriting or tokenizing: history_count is
\* the number of non-empty lines read, builtins and all-space lines included,
\* each retained entry is the line as typed, whatever was done to the
\* command line since, and an empty line changes nothing.
C18_RecordedOnceAsTyped ==
  /\ history_count = Len(LinesRead)
  /\ \A k \in 1..history_count :
       k > history_count - HISTORY_SIZE => history[(k - 1) % HISTORY_SIZE] = LinesRead[k]
  /\ \A k \in 0..(HISTORY_SIZE - 1) : k >= history_count => history[k] = <<>>

\* "listar" is in the history while the command line reads "ls" and run_cmd
\* is about to be called
C18_Witness ==
  /\ Dispatched /\ LastCmd = S_listar
  /\ pc = "cmd_fork"
  /\ history_count = 1 /\ history[0] = S_listar
  /\ CStrAt(buf, 1) = S_ls

InLauncher ==
  pc \in {"cmd_fork", "cmd_wait", "pipe_pipe", "pipe_fork1", "pipe_fork2",
          "pipe_close0", "pipe_close1", "pipe_wait1", "pipe_wait2"}

\* C19: the builtins are matched on the line as typed in the order salir,
\* limpiar, historial, ayuda, "calc " as a prefix, tiempo, the first match
\* deciding, and each of them completes without a child or a pipe; a launcher
\* is called in a pass exactly when the line matched none of them, the
\* aliases going on to the launcher.  The match is exact: a keyword with a
\* space or other text after it is not that builtin.
C19_BuiltinDispatch ==
  /\ Dispatched =>
       IF LastCmd = S_salir
         THEN pc = "exited" /\ NoneSpawned /\ out = <<"Cerrando eafitos...">>
       ELSE IF LastCmd = S_limpiar
         THEN pc = "prompt" /\ NoneSpawned /\ out = <<"clear_screen">>
       ELSE IF LastCmd = S_historial
         THEN pc = "prompt" /\ NoneSpawned /\ out[1] = "Ultimos comandos"
       ELSE IF LastCmd = S_ayuda
         THEN pc = "prompt" /\ NoneSpawned /\ out = <<"Comandos disponibles">>
       ELSE IF HasPrefix(LastCmd, S_calc_)
         THEN pc = "prompt" /\ NoneSpawned
              /\ out[1] \in {"Resultado", "Uso: calc n1 op n2"}
       ELSE IF LastCmd = S_tiempo
         THEN pc = "prompt" /\ NoneSpawned /\ out = <<"Hora actual">>
       ELSE pc \in {"cmd_fork", "pipe_pipe"}
  /\ InLauncher => ~IsBuiltin(LastCmd)

AtPrompt == pc = "prompt" \/ op.name = "prompt"

\* C20: no call of pipe having failed, at every prompt the open descriptors
\* of the shell are those it started with, after builtins, single commands
\* and pipes, with forks that succeed or fail; run_pipe has closed in the
\* parent every pipe end it opened when it returns.
C20_NoDescriptorLeak ==
  /\ (AtPrompt /\ ~pipeFailed) => ofile = StdFiles
  /\ (AtPrompt \/ Terminated) => PipeEnds(ofile) = {}

\* the second command of a session, a pipe whose second fork failed, has
\* returned to the prompt with the descriptors 0, 1 and 2 alone
C20_Witness ==
  /\ pc = "prompt" /\ ~pipeFailed
  /\ Len(cmds) = 2
  /\ events = <<<<"pipe", "ok">>, <<"fork", "A">>, <<"fork_failed", "B">>,
                <<"reap", "A">>>>
  /\ ofile = StdFiles

====
